---- MODULE Spec2Model ----
(***************************************************************************)
(* A model of the SEO workflow orchestrator (kitsharma/seo-workflow).      *)
(*                                                                         *)
(* Python dictionaries are functions from key strings to values.  A value  *)
(* is a tagged record:                                                     *)
(*   [t |-> "atom", id, words]   a scalar or an immutable nested value;    *)
(*                               words are the marker substrings its text  *)
(*                               (str() or json.dumps()) contains          *)
(*   [t |-> "api_info", ...]     the _api_info sub-record                  *)
(*   [t |-> "dict", d]           a copied mapping (input_<step> and        *)
(*                               output_<step> entries)                    *)
(*   [t |-> "summary", d]        the execution summary the run created     *)
(*   [t |-> "ref"]               a reference to the caller's own           *)
(*                               execution_summary object, whose contents  *)
(*                               live in the run's caller_summary cell     *)
(* Texts (prompts) are modelled by the set of marker substrings they       *)
(* contain, which is all the mock generator reads of them.                 *)
(***************************************************************************)
EXTENDS Integers, Sequences, FiniteSets, TLC

VARIABLES
    api_mode,            \* self.api_mode
    api_key,             \* self.api_key
    api_client,          \* self.api_client: "client" or "None"
    workflow_templates,  \* self.workflow_templates
    runs,                \* one record of locals per run_workflow / run_custom_workflow call
    history,             \* per run, when interleaved runs are followed: the arguments of
                         \* its call and the executor responses it has received
    ui,                  \* workflow-orchestrator.py: the document _format_for_ui is given
                         \* and the document it returns
    mock_calls,          \* the calls of _generate_mock_response made directly, in order:
                         \* the instance, the prompt and the record returned
    parsed,              \* the text parse_response_content was called on directly and
                         \* what it returned
    built,               \* the prompts built for a step by the two prompt functions called directly
    api_call,            \* the HTTP exchange call_api was given directly and how the call ended
    handler,             \* start_workflow: the request being served, whether the orchestrator was called, the response
    results_dir,         \* the files of the results directory, by result identifier
    minimal,             \* minimal-orchestrator.py: the call made of its orchestrator and how it ended
    key_manager          \* key_manager.py: the fields of the KeyManager and the keys file as its last load found it

vars ==
    <<api_mode, api_key, api_client, workflow_templates, runs, history, ui, mock_calls, parsed,
     built,
     api_call,
     handler,
     results_dir,
     minimal,
     key_manager>>

\* the variables of the parts modelled apart from the engine
rest == <<built, api_call, handler, results_dir, minimal, key_manager>>

\* the variables of the engine and of the formatter, generator and parser
\* called directly
core ==
    <<api_mode, api_key, api_client, workflow_templates, runs, history, ui, mock_calls, parsed>>

----------------------------------------------------------------------------
(* Bounds *)

\* step_execution_time ranges over 0..MaxStepTime clock ticks
MaxStepTime == 1

----------------------------------------------------------------------------
(* Dictionaries and values *)

EmptyDict == <<>>

\* dict.update(e): keys of e overwrite same-named keys of d
DictUpdate(d, e) ==
    [k \in DOMAIN d \cup DOMAIN e |-> IF k \in DOMAIN e THEN e[k] ELSE d[k]]

\* d[k] = v
DictSet(d, k, v) == DictUpdate(d, k :> v)

Atom(id, words) == [t |-> "atom", id |-> id, words |-> words]

DictValue(d) == [t |-> "dict", d |-> d]

SummaryValue(d) == [t |-> "summary", d |-> d]

Ref == [t |-> "ref"]

\* a quotient total / n kept exact
Ratio(num, den) == [num |-> num, den |-> den]

RatioEq(a, b) == a.num * b.den = b.num * a.den

CLAUDE_MODEL == "claude-3-opus-20240229"

----------------------------------------------------------------------------
(* Catalogs *)

KnownSteps ==
    {"keyword_research", "content_brief", "content_writer",
     "technical_seo", "content_gap_analysis", "seo_strategy"}

WorkflowTemplates ==
    [content_strategy |->
        [description |-> "Develop a comprehensive content strategy based on keyword research and content gap analysis",
         steps |-> <<"keyword_research", "content_gap_analysis", "seo_strategy">>],
     content_creation |->
        [description |-> "Create high-quality, SEO-optimized content based on keyword research and a detailed content brief",
         steps |-> <<"keyword_research", "content_brief", "content_writer">>],
     technical_audit |->
        [description |-> "Perform a technical SEO audit to identify issues and opportunities for improvement",
         steps |-> <<"technical_seo", "seo_strategy">>],
     full_seo_analysis |->
        [description |-> "Comprehensive SEO analysis including keyword research, content gaps, and technical recommendations",
         steps |-> <<"keyword_research", "content_gap_analysis", "technical_seo", "seo_strategy">>]]

CustomDescription == "Custom workflow with user-selected steps"

----------------------------------------------------------------------------
(* Marker substrings of the texts that end up in a prompt *)

\* the substrings _generate_mock_response looks for in prompt.lower()
Markers ==
    {"keyword", "keywords", "content", "brief", "technical", "audit",
     "gap", "competitor", "strategy"}

\* markers contained in a step identifier or a dictionary key
NameWords(name) ==
    CASE name = "keyword_research"      -> {"keyword"}
      [] name = "content_brief"         -> {"content", "brief"}
      [] name = "content_writer"        -> {"content"}
      [] name = "technical_seo"         -> {"technical"}
      [] name = "content_gap_analysis"  -> {"content", "gap"}
      [] name = "seo_strategy"          -> {"strategy"}
      [] name = "keyword_groups"        -> {"keyword"}
      [] name = "content_structure"     -> {"content"}
      [] name = "content_opportunities" -> {"content"}
      [] name = "content"               -> {"content"}
      [] OTHER                          -> {}

\* markers in the text of an execution-log entry (json.dumps of the entry)
EntryWords(e) ==
    NameWords(e.agent)
        \cup UNION {NameWords(k) : k \in e.input_data_keys}
        \cup UNION {NameWords(k) : k \in e.output_data_keys}

\* markers in json.dumps of an execution-summary mapping
SummaryWords(s) ==
    IF "execution_log" \in DOMAIN s
    THEN UNION {EntryWords(s["execution_log"][j]) : j \in DOMAIN s["execution_log"]}
    ELSE {}

\* markers in the rendering of one value; cell is the caller's summary object
ValueWords(v, cell) ==
    CASE v.t = "atom"     -> v.words
      [] v.t = "api_info" -> {}
      [] v.t = "ref"      -> SummaryWords(cell)
      [] OTHER            -> {}

\* _format_input_for_step: the closing instruction of each step
ClosingWords(step) ==
    CASE step = "keyword_research"     -> {"keyword", "keywords"}
      [] step = "content_brief"        -> {"content", "brief"}
      [] step = "content_writer"       -> {"content", "brief"}
      [] step = "technical_seo"        -> {"technical"}
      [] step = "content_gap_analysis" -> {"content", "gap", "competitor"}
      [] step = "seo_strategy"         -> {"strategy"}
      [] OTHER                         -> {}

\* _format_input_for_step: header naming the step, one "key: value" line per
\* entry of the context, then the closing instruction
FormatInputForStep(step, input_data, cell) ==
    NameWords(step)
        \cup UNION {NameWords(k) \cup ValueWords(input_data[k], cell) : k \in DOMAIN input_data}
        \cup ClosingWords(step)

\* a system prompt looked up in a table of the known steps
CreateSystemPromptForStepLookup(step) ==
    IF step \in KnownSteps THEN <<"base_prompt", step>> ELSE <<"KeyError", step>>

\* _create_system_prompt_for_step: base prompt, extended for the six known steps
CreateSystemPromptForStep(step) ==
    IF step \in KnownSteps THEN <<"base_prompt", step>> ELSE <<"base_prompt">>

\* _format_input_for_step, lines 479-511: which closing instruction is
\* appended, the one of a known step or the generic one
ClosingInstruction(step) == IF step \in KnownSteps THEN step ELSE "generic"

\* _format_input_for_step: the parts of the text it returns
FormatInputLayout(step, input_data, cell) ==
    [header |-> step, keys |-> DOMAIN input_data,
     closing |-> ClosingInstruction(step),
     words |-> FormatInputForStep(step, input_data, cell)]

NotBuilt ==
    [pc |-> "idle", step |-> "", system_prompt |-> <<>>,
     prompt |-> [header |-> "", keys |-> {}, closing |-> "", words |-> {}]]

\* the two prompt functions are called for a step on a context
BuildPrompts(step, data) ==
    /\ built.pc = "idle"
    /\ built' = [pc |-> "done", step |-> step,
                 system_prompt |-> CreateSystemPromptForStep(step),
                 prompt |-> FormatInputLayout(step, data.mapping, data.summary)]
    /\ UNCHANGED <<core, api_call, handler, results_dir, minimal, key_manager>>

----------------------------------------------------------------------------
(* The mock generator *)

MockApiInfo == [t |-> "api_info", model |-> CLAUDE_MODEL, version |-> "mock", mock_data |-> TRUE]

KeywordRecord ==
    [analysis |-> Atom("Analyzed target keywords", {"keyword", "keywords"}),
     recommendations |-> Atom("keyword recommendations", {"keyword", "keywords", "content"}),
     keyword_groups |-> Atom("keyword groups", {})]

BriefRecord ==
    [analysis |-> Atom("Created a comprehensive content brief", {"content", "brief", "keyword", "keywords", "competitor"}),
     recommendations |-> Atom("brief recommendations", {"content"}),
     content_structure |-> Atom("content structure", {})]

TechnicalRecord ==
    [analysis |-> Atom("Performed a technical SEO audit", {"technical", "audit"}),
     recommendations |-> Atom("technical recommendations", {}),
     issues |-> Atom("issues", {"content"})]

GapRecord ==
    [analysis |-> Atom("Identified content gaps", {"content", "gap", "competitor"}),
     recommendations |-> Atom("gap recommendations", {"content"}),
     content_opportunities |-> Atom("content opportunities", {})]

StrategyRecord ==
    [analysis |-> Atom("Developed a comprehensive SEO strategy", {"strategy"}),
     recommendations |-> Atom("strategy recommendations", {"technical", "content", "gap"}),
     priority_actions |-> Atom("priority actions", {"technical", "content"})]

GenericRecord ==
    [analysis |-> Atom("Processed the input data", {}),
     recommendations |-> Atom("generic recommendations", {"content"})]

\* a generator answering with the generic record on every second call
GenerateMockResponseAlternating(prompt) ==
    DictSet(IF Len(mock_calls) % 2 = 1 \/ "keyword" \notin prompt THEN GenericRecord
            ELSE KeywordRecord,
            "_api_info", MockApiInfo)

\* a generator testing for strategy before anything else
GenerateMockResponseStrategyFirst(prompt) ==
    LET mock_response ==
            IF "strategy" \in prompt THEN StrategyRecord
            ELSE IF "keyword" \in prompt \/ "keywords" \in prompt THEN KeywordRecord
            ELSE IF "content" \in prompt /\ "brief" \in prompt THEN BriefRecord
            ELSE IF "technical" \in prompt \/ "audit" \in prompt THEN TechnicalRecord
            ELSE IF "gap" \in prompt \/ "competitor" \in prompt THEN GapRecord
            ELSE GenericRecord
    IN  DictSet(mock_response, "_api_info", MockApiInfo)

\* _generate_mock_response: the canned record chosen by the first matching test
GenerateMockResponse(prompt) ==
    LET mock_response ==
            IF "keyword" \in prompt \/ "keywords" \in prompt THEN KeywordRecord
            ELSE IF "content" \in prompt /\ "brief" \in prompt THEN BriefRecord
            ELSE IF "technical" \in prompt \/ "audit" \in prompt THEN TechnicalRecord
            ELSE IF "gap" \in prompt \/ "competitor" \in prompt THEN GapRecord
            ELSE IF "strategy" \in prompt THEN StrategyRecord
            ELSE GenericRecord
    IN  DictSet(mock_response, "_api_info", MockApiInfo)

\* _generate_mock_response(prompt, system_prompt) is called on an instance
GenerateMockResponseCall(instance, prompt) ==
    /\ mock_calls' = Append(mock_calls, [instance |-> instance, prompt |-> prompt,
                                         response |-> GenerateMockResponse(prompt)])
    /\ UNCHANGED <<api_mode, api_key, api_client, workflow_templates, runs, history, ui, parsed, rest>>

----------------------------------------------------------------------------
(* The live client (api_client.py) *)

(* A response text is a sequence of lines; a line is known by what          *)
(* line.strip() is:                                                          *)
(*   "FENCE_JSON"     ```json                                                *)
(*   "FENCE"          ```                                                    *)
(*   "LBRACE"         {                                                      *)
(*   "RBRACE"         }                                                      *)
(*   "MEMBERS_CANON"  "analysis": ..., "recommendations": [...]              *)
(*   "MEMBERS_OTHER"  "content": ...                                         *)
(*   "OBJ_CANON"      {"analysis": ..., "recommendations": [...]}            *)
(*   "OBJ_OTHER"      {"content": ...}                                       *)
(*   "LIST"           ["a", "b"]                                             *)
(*   "PROSE"          any text without braces                                *)
Lines ==
    {"FENCE_JSON", "FENCE", "LBRACE", "RBRACE", "MEMBERS_CANON", "MEMBERS_OTHER",
     "OBJ_CANON", "OBJ_OTHER", "LIST", "PROSE"}

\* lines holding a "{" and lines holding a "}"
HasOpen(line) == line \in {"LBRACE", "OBJ_CANON", "OBJ_OTHER"}

HasClose(line) == line \in {"RBRACE", "OBJ_CANON", "OBJ_OTHER"}

CanonMembers ==
    [analysis |-> Atom("live analysis", {}),
     recommendations |-> Atom("live recommendations", {})]

OtherMembers == [content |-> Atom("live content", {"content"})]

\* the value json.loads builds, or its JSONDecodeError
JsonOk(is_dict, d) == [ok |-> TRUE, is_dict |-> is_dict, d |-> d]

JsonDecodeError == [ok |-> FALSE, is_dict |-> FALSE, d |-> EmptyDict]

\* json.loads of the lines joined by newlines
JsonLoads(lines) ==
    CASE lines = <<"LBRACE", "MEMBERS_CANON", "RBRACE">> -> JsonOk(TRUE, CanonMembers)
      [] lines = <<"LBRACE", "MEMBERS_OTHER", "RBRACE">> -> JsonOk(TRUE, OtherMembers)
      [] lines = <<"LBRACE", "RBRACE">>                  -> JsonOk(TRUE, EmptyDict)
      [] lines = <<"OBJ_CANON">>                         -> JsonOk(TRUE, CanonMembers)
      [] lines = <<"OBJ_OTHER">>                         -> JsonOk(TRUE, OtherMembers)
      [] lines = <<"LIST">>                              -> JsonOk(FALSE, EmptyDict)
      [] OTHER                                           -> JsonDecodeError

\* parse_response_content, lines 134-146: the loop collecting json_block
RECURSIVE JsonBlock(_, _, _, _)
JsonBlock(response_lines, n, in_json_block, json_block) ==
    IF n > Len(response_lines) THEN json_block
    ELSE LET line == response_lines[n] IN
         IF line = "FENCE_JSON" \/ line = "LBRACE"
         THEN JsonBlock(response_lines, n + 1, TRUE,
                        IF line = "LBRACE" THEN Append(json_block, line) ELSE json_block)
         ELSE IF line = "FENCE" /\ in_json_block
         THEN JsonBlock(response_lines, n + 1, FALSE, json_block)
         ELSE IF in_json_block
         THEN JsonBlock(response_lines, n + 1, in_json_block, Append(json_block, line))
         ELSE JsonBlock(response_lines, n + 1, in_json_block, json_block)

\* re.search(r'\{.*\}', content, re.DOTALL): from the first "{" to the last "}"
\* after it; <<>> when there is no match
JsonMatch(content) ==
    LET opens == {n \in DOMAIN content : HasOpen(content[n])}
        first == CHOOSE n \in opens : \A m \in opens : n <= m
        closes == {n \in DOMAIN content : HasClose(content[n]) /\ n >= first}
        last == CHOOSE n \in closes : \A m \in closes : m <= n
    IN  IF opens = {} \/ closes = {} THEN <<>> ELSE SubSeq(content, first, last)

ResponseText(content) == [t |-> "text", lines |-> content, words |-> {}]

Passthrough(content) == JsonOk(TRUE, [response_text |-> ResponseText(content)])

\* the parser without its except clauses: a failed json.loads escapes
ParseResponseContentUncaught(content) ==
    LET json_block == JsonBlock(content, 1, FALSE, <<>>)
        json_match == JsonMatch(content)
    IN  IF json_block # <<>> THEN JsonLoads(json_block)
        ELSE IF json_match # <<>> THEN JsonLoads(json_match)
        ELSE Passthrough(content)

\* parse_response_content: the parsed value (is_dict tells a mapping from any
\* other JSON value); a JSONDecodeError anywhere yields the passthrough record
ParseResponseContent(content) ==
    LET json_block == JsonBlock(content, 1, FALSE, <<>>)
        json_match == JsonMatch(content)
    IN  IF json_block # <<>>
        THEN IF JsonLoads(json_block).ok THEN JsonLoads(json_block) ELSE Passthrough(content)
        ELSE IF json_match # <<>>
        THEN IF JsonLoads(json_match).ok THEN JsonLoads(json_match) ELSE Passthrough(content)
        ELSE Passthrough(content)

NotParsed == [pc |-> "idle", content |-> <<>>, result |-> JsonOk(FALSE, EmptyDict)]

\* parse_response_content(content) is called
ParseResponseContentCall(content) ==
    /\ parsed.pc = "idle"
    /\ parsed' = [pc |-> "done", content |-> content, result |-> ParseResponseContent(content)]
    /\ UNCHANGED <<api_mode, api_key, api_client, workflow_templates, runs, history, ui, mock_calls, rest>>

(* An HTTP exchange as call_api sees it:                                     *)
(*   [kind |-> "timeout"]                       requests.exceptions.Timeout  *)
(*   [kind |-> "status", code |-> c]            a response with status c     *)
(*   [kind |-> "ok", has_content, content]      status 200 and its body      *)
HttpTimeout == [kind |-> "timeout", code |-> 0, has_content |-> FALSE, content |-> <<>>]

HttpStatus(code) == [kind |-> "status", code |-> code, has_content |-> FALSE, content |-> <<>>]

HttpOk(content) == [kind |-> "ok", code |-> 200, has_content |-> TRUE, content |-> content]

HttpOkNoContent == [kind |-> "ok", code |-> 200, has_content |-> FALSE, content |-> <<>>]

\* status 200 with a body that is no JSON: response.json() raises
HttpOkNotJson == [kind |-> "not_json", code |-> 200, has_content |-> FALSE, content |-> <<>>]

ApiReturn(content) ==
    [raised |-> FALSE, error_type |-> "", error_msg |-> "",
     response |-> [content |-> content, api_version |-> "2023-06-01", model |-> CLAUDE_MODEL]]

\* raise Exception(error_msg)
ApiRaise(msg) ==
    [raised |-> TRUE, error_type |-> "Exception", error_msg |-> msg, response |-> EmptyDict]

\* ClaudeAPIClient.call_api: the mapping returned, or the Exception raised;
\* every exception of the try block is re-raised by the last handler as
\* "API request failed: ..."
CallApi(http) ==
    IF http.kind = "timeout" THEN ApiRaise("API request timed out")
    ELSE IF http.code = 200
    THEN IF http.kind = "not_json" THEN ApiRaise("API request failed: Expecting value")
         ELSE IF http.has_content THEN ApiReturn(http.content)
         ELSE ApiRaise("API request failed: Unexpected response format - missing content")
    ELSE ApiRaise("API request failed: API request failed with status")

\* live metadata carrying the mock flag
LiveApiInfoFlaggedMock(api_response) ==
    [t |-> "api_info", model |-> api_response.model,
     version |-> api_response.api_version, mock_data |-> TRUE]

NoApiCall == [pc |-> "idle", http |-> HttpTimeout, outcome |-> ApiRaise("")]

\* call_api(prompt, system_prompt) is called and the exchange takes place
CallApiCall(http) ==
    /\ api_call.pc = "idle"
    /\ api_call' = [pc |-> "done", http |-> http, outcome |-> CallApi(http)]
    /\ UNCHANGED <<core, built, handler, results_dir, minimal, key_manager>>

\* call_claude_api, lines 99-103
LiveApiInfo(api_response) ==
    [t |-> "api_info", model |-> api_response.model,
     version |-> api_response.api_version, mock_data |-> FALSE]

\* call_claude_api, line 85: the live client is called for the step
UsesLiveClient(mode, client) == mode = "live" /\ client # "None"

\* call_claude_api, lines 90-113: the try block raises, in the call or in the
\* item assignment on a parsed value that is no mapping
LiveCallFails(mode, client, http) ==
    /\ UsesLiveClient(mode, client)
    /\ \/ CallApi(http).raised
       \/ ~ParseResponseContent(CallApi(http).response.content).is_dict

\* call_claude_api: mock when not live; otherwise the parsed live response,
\* and the mock record when anything in the try block raises (the call
\* itself, or the item assignment on a parsed value that is no mapping)
CallClaudeApi(mode, client, prompt, http) ==
    IF ~UsesLiveClient(mode, client)
    THEN GenerateMockResponse(prompt)
    ELSE LET api == CallApi(http)
             structured_response == ParseResponseContent(api.response.content)
         IN  IF api.raised THEN GenerateMockResponse(prompt)
             ELSE IF "content" \in DOMAIN api.response
             THEN IF structured_response.is_dict
                  THEN DictSet(structured_response.d, "_api_info", LiveApiInfo(api.response))
                  ELSE GenerateMockResponse(prompt)
             ELSE GenerateMockResponse(prompt)

----------------------------------------------------------------------------
(* The workflow engine (claude_workflow_orchestrator.py) *)

NoError == [type |-> "none", text |-> "", workflow_type |-> "", available_workflows |-> {}]

\* the error without the list of valid names
UnknownWorkflowErrorUnlisted(workflow_type, templates) ==
    [type |-> "ValueError", text |-> "Unknown workflow type",
     workflow_type |-> workflow_type, available_workflows |-> {}]

\* run_workflow, lines 256-258: the ValueError naming the unknown workflow and
\* listing the keys of workflow_templates
UnknownWorkflowError(workflow_type, templates) ==
    [type |-> "ValueError", text |-> "Unknown workflow type",
     workflow_type |-> workflow_type, available_workflows |-> DOMAIN templates]

\* indexing or appending to an execution_summary value that is no mapping with
\* an execution_log list
SummaryTypeError ==
    [type |-> "TypeError", text |-> "string indices must be integers",
     workflow_type |-> "", available_workflows |-> {}]

IdleRun ==
    [pc |-> "idle", entry |-> "none", workflow_type |-> "", steps_arg |-> <<>>,
     initial_data |-> EmptyDict, summary_at_call |-> EmptyDict,
     caller_summary |-> EmptyDict,
     workflow_steps |-> <<>>, i |-> 0, current_data |-> EmptyDict,
     result |-> EmptyDict, total_time |-> 0, prompt |-> {}, system_prompt |-> <<>>,
     events |-> <<>>, live_steps |-> {}, failed_steps |-> {}, error |-> NoError]

\* run_workflow, lines 264-274: the result created before the loop
InitialResult(workflow_type, workflow_info, mode) ==
    [workflow_type |-> Atom(workflow_type, {}),
     workflow_description |-> Atom(workflow_info.description, {}),
     api_mode |-> Atom(mode, {}),
     execution_summary |->
        SummaryValue([total_steps_executed |-> Len(workflow_info.steps),
                      total_execution_time_seconds |-> 0,
                      average_step_time_seconds |-> Ratio(0, 1),
                      execution_log |-> <<>>])]

\* run_workflow, lines 277-278: every initial-data entry is copied to the top
\* level of the result
IncludeInitialData(result, initial_data) == DictUpdate(result, initial_data)

\* run_workflow, lines 302-303
StoreStep(result, step, current_data, step_output) ==
    DictSet(DictSet(result, "input_" \o step, DictValue(current_data)),
            "output_" \o step, DictValue(step_output))

\* the merge with the operands exchanged: an earlier key survives a later
\* step's same-named key
MergeStepOutputKeepEarlier(current_data, step_output) == DictUpdate(step_output, current_data)

\* the context kept in one mapping on the instance, which every run in
\* progress has written to
SharedContext ==
    [k \in UNION {DOMAIN runs[r].current_data : r \in DOMAIN runs} |->
        runs[CHOOSE r \in DOMAIN runs : k \in DOMAIN runs[r].current_data].current_data[k]]

\* the merge made into the mapping on the instance
MergeStepOutputShared(current_data, step_output) == DictUpdate(SharedContext, step_output)

\* run_workflow, line 306: current_data.update(step_output)
MergeStepOutput(current_data, step_output) == DictUpdate(current_data, step_output)

\* run_workflow, lines 309-315: the entry appended to the execution log
LogEntry(step, step_execution_time, current_data, step_output) ==
    [timestamp |-> "now", agent |-> step,
     execution_time_seconds |-> step_execution_time,
     input_data_keys |-> DOMAIN current_data,
     output_data_keys |-> DOMAIN step_output]

\* the mapping result["execution_summary"] evaluates to: the run's own
\* summary, or the caller's object when the initial data replaced it
SummaryOf(result, cell) ==
    IF result["execution_summary"].t = "summary" THEN result["execution_summary"].d
    ELSE cell

\* whether result["execution_summary"][key] can be assigned
SummaryIsMapping(result) == result["execution_summary"].t \in {"summary", "ref"}

\* result["execution_summary"][key] = value: in the run's own summary, or in
\* place in the caller's object
SummarySet(result, cell, key, value) ==
    IF result["execution_summary"].t = "summary"
    THEN [result |-> DictSet(result, "execution_summary",
                             SummaryValue(DictSet(result["execution_summary"].d, key, value))),
          cell |-> cell]
    ELSE [result |-> result, cell |-> DictSet(cell, key, value)]

\* run_workflow, line 309: result["execution_summary"]["execution_log"].append(entry)
LogAppend(result, cell, entry) ==
    IF SummaryIsMapping(result) /\ "execution_log" \in DOMAIN SummaryOf(result, cell)
    THEN LET set == SummarySet(result, cell, "execution_log",
                               Append(SummaryOf(result, cell)["execution_log"], entry))
         IN  [raised |-> FALSE, result |-> set.result, cell |-> set.cell]
    ELSE [raised |-> TRUE, result |-> result, cell |-> cell]

\* run_workflow, line 320: total_time / len(workflow_steps)
AverageStepTime(total_time, workflow_steps) == Ratio(total_time, Len(workflow_steps))

\* run_workflow, lines 317-320: the summary updated after the loop
UpdateSummary(result, cell, total_time, workflow_steps) ==
    LET s1 == SummarySet(result, cell, "total_execution_time_seconds", total_time)
    IN  IF Len(workflow_steps) > 0
        THEN SummarySet(s1.result, s1.cell, "average_step_time_seconds",
                        AverageStepTime(total_time, workflow_steps))
        ELSE s1

\* the position of the step run after step i
NextStepIndex(i) == i + 1

\* run_workflow, lines 286-295: the prompts of step i are built from the
\* current context and the executor is invoked
InvokeStep(run, i, current_data, result, cell, total_time, events) ==
    [run EXCEPT
        !.pc = "in_call", !.i = i, !.current_data = current_data, !.result = result,
        !.caller_summary = cell, !.total_time = total_time,
        !.system_prompt = CreateSystemPromptForStep(run.workflow_steps[i]),
        !.prompt = FormatInputForStep(run.workflow_steps[i], current_data, cell),
        !.events = Append(events, [ev |-> "call", step |-> run.workflow_steps[i]])]

\* run_workflow, lines 317-322; run_custom_workflow, lines 337-340, when the
\* run was entered through it
Return(run, current_data, result, cell, total_time, events) ==
    LET done == UpdateSummary(result, cell, total_time, run.workflow_steps)
    IN  [run EXCEPT
            !.pc = "returned", !.current_data = current_data,
            !.total_time = total_time, !.events = events,
            !.caller_summary = done.cell,
            !.result = IF run.entry = "run_custom_workflow"
                       THEN DictSet(done.result, "workflow_description", Atom(CustomDescription, {}))
                       ELSE done.result]

\* run_workflow, lines 252-295, up to the first executor call
EnterWorkflow(run, workflow_type, data, templates, mode) ==
    IF workflow_type \notin DOMAIN templates
    THEN [run EXCEPT !.pc = "raised",
                     !.error = UnknownWorkflowError(workflow_type, templates)]
    ELSE LET workflow_info == templates[workflow_type]
             result == IncludeInitialData(
                           InitialResult(workflow_type, workflow_info, mode), data.mapping)
             started == [run EXCEPT !.workflow_steps = workflow_info.steps]
         IN  IF Len(workflow_info.steps) > 0
             THEN InvokeStep(started, 1, data.mapping, result, data.summary, 0, <<>>)
             ELSE Return(started, data.mapping, result, data.summary, 0, <<>>)

\* the locals of a run from the call of an entry point up to its first
\* executor call, its return or its exception
Call(run, entry, workflow_type, steps, data, templates, mode) ==
    EnterWorkflow([run EXCEPT !.entry = entry,
                              !.workflow_type = workflow_type,
                              !.steps_arg = steps,
                              !.initial_data = data.mapping,
                              !.summary_at_call = data.summary,
                              !.caller_summary = data.summary],
                  workflow_type, data, templates, mode)

\* run_workflow(workflow_type, initial_data) is called
RunWorkflow(r, workflow_type, data) ==
    /\ runs[r].pc = "idle"
    /\ runs' = [runs EXCEPT ![r] =
            Call(runs[r], "run_workflow", workflow_type, <<>>, data,
                 workflow_templates, api_mode)]
    /\ UNCHANGED <<api_mode, api_key, api_client, workflow_templates>>

\* run_custom_workflow(steps, initial_data) is called: it runs
\* run_workflow("custom", initial_data)
RunCustomWorkflow(r, steps, data) ==
    /\ runs[r].pc = "idle"
    /\ runs' = [runs EXCEPT ![r] =
            Call(runs[r], "run_custom_workflow", "custom", steps, data,
                 workflow_templates, api_mode)]
    /\ UNCHANGED <<api_mode, api_key, api_client, workflow_templates>>

\* run_workflow, lines 295-315 for the step in progress, as the locals of the
\* run after it: the step is stored, merged and logged; then the next step is
\* invoked, or the loop is over and the result returned
StepReturn(run, mode, client, http, step_execution_time) ==
    LET step == run.workflow_steps[run.i]
        step_output == CallClaudeApi(mode, client, run.prompt, http)
        total_time == run.total_time + step_execution_time
        stored == StoreStep(run.result, step, run.current_data, step_output)
        current_data == MergeStepOutput(run.current_data, step_output)
        logged == LogAppend(stored, run.caller_summary,
                            LogEntry(step, step_execution_time, current_data, step_output))
        events == Append(run.events, [ev |-> "return", step |-> step])
        ran == [run EXCEPT
                    !.live_steps =
                        IF UsesLiveClient(mode, client) THEN @ \cup {step} ELSE @,
                    !.failed_steps =
                        IF LiveCallFails(mode, client, http) THEN @ \cup {step} ELSE @]
    IN  IF logged.raised
        THEN [ran EXCEPT !.pc = "raised", !.error = SummaryTypeError,
                         !.result = stored, !.current_data = current_data,
                         !.total_time = total_time, !.events = events]
        ELSE IF NextStepIndex(run.i) <= Len(run.workflow_steps)
        THEN InvokeStep(ran, NextStepIndex(run.i), current_data, logged.result,
                        logged.cell, total_time, events)
        ELSE Return(ran, current_data, logged.result, logged.cell, total_time, events)

\* call_claude_api returns to the loop of run r
ExecutorReturn(r, http, step_execution_time) ==
    /\ runs[r].pc = "in_call"
    /\ runs' = [runs EXCEPT ![r] =
            StepReturn(runs[r], api_mode, api_client, http, step_execution_time)]
    /\ UNCHANGED <<api_mode, api_key, api_client, workflow_templates>>

----------------------------------------------------------------------------
(* The UI formatter (workflow-orchestrator.py) *)

\* a step output that is a plain string
StrValue(text) == [t |-> "str", id |-> text, words |-> {}]

\* the empty list given as recommendations
EmptyList == Atom("[]", {})

Placeholder == StrValue("No detailed analysis available for this step.")

\* the top-level keys that begin with output_
StartsWithOutput(key) ==
    key \in {"output_" \o name : name \in KnownSteps \cup {"extra"}}

\* the alternate field names in the order they are tried
TextFieldsReversed == <<"content", "text", "result", "output">>

\* _format_for_ui, line 177
TextFields == <<"output", "result", "text", "content">>

\* _format_for_ui, lines 177-180: the loop over the alternate fields from
\* position n on; the first one present becomes analysis
RECURSIVE PromoteTextField(_, _)
PromoteTextField(step_data, n) ==
    IF n > Len(TextFields) THEN step_data
    ELSE IF TextFields[n] \in DOMAIN step_data
    THEN DictSet(step_data, "analysis", step_data[TextFields[n]])
    ELSE PromoteTextField(step_data, n + 1)

\* analysis taken from an alternate field whatever the mapping holds
FormatStepDataAlwaysPromote(step_data) ==
    IF step_data.t = "dict"
    THEN LET promoted == PromoteTextField(step_data.d, 1)
         IN  DictValue(IF "recommendations" \notin DOMAIN promoted
                       THEN DictSet(promoted, "recommendations", EmptyList)
                       ELSE promoted)
    ELSE step_data

\* _format_for_ui, lines 172-194: the value stored under one output_ key
FormatStepData(step_data) ==
    IF step_data.t = "dict"
    THEN LET promoted ==
                 IF "analysis" \notin DOMAIN step_data.d /\ "response_text" \notin DOMAIN step_data.d
                 THEN PromoteTextField(step_data.d, 1)
                 ELSE step_data.d
             analysed ==
                 IF "analysis" \notin DOMAIN step_data.d /\ "response_text" \notin DOMAIN step_data.d
                    /\ "analysis" \notin DOMAIN promoted
                 THEN DictSet(promoted, "analysis", Placeholder)
                 ELSE promoted
         IN  DictValue(IF "recommendations" \notin DOMAIN analysed
                       THEN DictSet(analysed, "recommendations", EmptyList)
                       ELSE analysed)
    ELSE IF step_data.t = "str"
    THEN DictValue([analysis |-> step_data, recommendations |-> EmptyList])
    ELSE step_data

\* _format_for_ui, lines 160-168: a step stored without prefix is renamed
RenameStep(result, step) ==
    IF ("input_" \o step) \in DOMAIN result /\ step \notin DOMAIN result
       /\ ("output_" \o step) \notin DOMAIN result
    THEN IF step \in DOMAIN result
         THEN [k \in (DOMAIN result \ {step}) \cup {"output_" \o step} |->
                    IF k = "output_" \o step THEN result[step] ELSE result[k]]
         ELSE result
    ELSE result

RECURSIVE RenameSteps(_, _, _)
RenameSteps(result, steps, n) ==
    IF n > Len(steps) THEN result
    ELSE RenameSteps(RenameStep(result, steps[n]), steps, n + 1)

\* _format_for_ui: the summary, name and description are set, unprefixed
\* steps renamed, and every output_ entry given its minimum fields
FormatForUi(result, workflow_type, workflow_info, execution_summary) ==
    LET headed == DictSet(DictSet(DictSet(result, "execution_summary", execution_summary),
                                  "workflow_type", Atom(workflow_type, {})),
                          "workflow_description", Atom(workflow_info.description, {}))
        renamed == RenameSteps(headed, workflow_info.steps, 1)
    IN  [key \in DOMAIN renamed |->
            IF StartsWithOutput(key) THEN FormatStepData(renamed[key]) ELSE renamed[key]]

IdleUi ==
    [pc |-> "idle", calls |-> 0, workflow_type |-> "",
     workflow_info |-> [description |-> "", steps |-> <<>>],
     given |-> EmptyDict, once |-> EmptyDict, result |-> EmptyDict]

\* the workflow_info run_workflow and run_custom_workflow pass on
UiWorkflowInfo(workflow_type, steps) ==
    IF workflow_type = "custom"
    THEN [description |-> CustomDescription, steps |-> steps]
    ELSE WorkflowTemplates[workflow_type]

\* the summary the workflow object reports
UiSummary == Atom("execution summary", {})

\* _format_for_ui(result, workflow_type, workflow_info) is called on the
\* document execute_workflow returned
FormatForUiCall(result, workflow_type, steps) ==
    /\ ui.pc = "idle"
    /\ ui' = [pc |-> "formatted", calls |-> 1, workflow_type |-> workflow_type,
              workflow_info |-> UiWorkflowInfo(workflow_type, steps),
              given |-> result,
              once |-> FormatForUi(result, workflow_type,
                                   UiWorkflowInfo(workflow_type, steps), UiSummary),
              result |-> FormatForUi(result, workflow_type,
                                     UiWorkflowInfo(workflow_type, steps), UiSummary)]
    /\ UNCHANGED <<api_mode, api_key, api_client, workflow_templates, runs, history, mock_calls, parsed, rest>>

\* _format_for_ui is applied to the document it returned
FormatForUiAgain ==
    /\ ui.pc = "formatted"
    /\ ui' = [ui EXCEPT !.pc = "formatted_again", !.calls = 2,
                        !.result = FormatForUi(ui.result, ui.workflow_type,
                                               ui.workflow_info, UiSummary)]
    /\ UNCHANGED <<api_mode, api_key, api_client, workflow_templates, runs, history, mock_calls, parsed, rest>>

----------------------------------------------------------------------------
(* Inputs *)

WorkflowNames == DOMAIN WorkflowTemplates \cup {"not_a_real_workflow", "custom"}

StepLists ==
    {<<>>, <<"keyword_research">>, <<"keyword_research", "seo_strategy">>,
     <<"seo_strategy", "seo_strategy">>}

\* an initial-data argument: the mapping, and the contents of the
\* execution_summary object it refers to, if any
Data(mapping, summary) == [mapping |-> mapping, summary |-> summary]

\* the summary of an earlier result document
PriorSummary ==
    [total_steps_executed |-> 1,
     total_execution_time_seconds |-> 1,
     average_step_time_seconds |-> Ratio(1, 1),
     execution_log |-> <<[timestamp |-> "earlier", agent |-> "seo_strategy",
                          execution_time_seconds |-> 1,
                          input_data_keys |-> {"analysis"},
                          output_data_keys |-> {"analysis"}]>>]

InitialDatas ==
    {Data(EmptyDict, EmptyDict),
     Data([a |-> Atom("1", {})], EmptyDict),
     Data([analysis |-> Atom("caller analysis", {}), topic |-> Atom("gap report", {"gap"})], EmptyDict),
     Data([workflow_type |-> Atom("caller workflow", {})], EmptyDict),
     Data([execution_summary |-> Atom("caller summary", {})], EmptyDict),
     Data([execution_summary |-> Ref], PriorSummary)}

Contents ==
    {<<"PROSE", "FENCE_JSON", "LBRACE", "MEMBERS_CANON", "RBRACE", "FENCE">>,
     <<"PROSE">>,
     <<"PROSE", "OBJ_OTHER">>,
     <<"FENCE_JSON", "LIST", "FENCE">>}

HttpOutcomes == {HttpTimeout, HttpStatus(401), HttpOkNoContent} \cup {HttpOk(c) : c \in Contents}

StepTimes == 0..MaxStepTime

----------------------------------------------------------------------------
(* The HTTP handler start_workflow (app.py, claude_seo_ui.py) *)

MaxRequests == 2

NoRequest == [workflow_type |-> "", steps |-> <<>>, data |-> Data(EmptyDict, EmptyDict)]

NoResponse == [status |-> 0, success |-> FALSE, result_id |-> 0, error |-> NoError]

\* the module app serving, before its first request; uuids counts the
\* identifiers uuid4 has issued, the n-th being n
IdleHandler(app) ==
    [app |-> app, pc |-> "idle", served |-> 0, request |-> NoRequest, called |-> FALSE,
     files_before |-> EmptyDict, uuids |-> 0, response |-> NoResponse]

\* app.py line 120, claude_seo_ui.py line 91
NoStepsSelected ==
    [type |-> "none", text |-> "No steps selected for custom workflow",
     workflow_type |-> "", available_workflows |-> {}]

\* app.py line 34: the reason the key manager gave for the mode
ApiModeReason == Atom("api_mode_reason", {})

\* jsonify({'error': ...}), status
ErrorResponse(status, error) ==
    [status |-> status, success |-> FALSE, result_id |-> 0, error |-> error]

\* app.py lines 132-146, claude_seo_ui.py lines 103-113: the document is
\* written to results/<result_id>.json under a new identifier
SaveResult(h, files, result, mode) ==
    LET document == IF h.app = "app"
                    THEN DictSet(DictSet(result, "api_mode", Atom(mode, {})),
                                 "api_mode_reason", ApiModeReason)
                    ELSE result
        result_id == h.uuids + 1
    IN  [handler |-> [h EXCEPT !.pc = "answered", !.uuids = result_id,
                               !.response = [status |-> 200, success |-> TRUE,
                                             result_id |-> result_id, error |-> NoError]],
         files |-> DictSet(files, result_id, document)]

\* a handler saving whatever the run holds before looking at how it ended
AnswerSavedFirst(h, files, run, mode) ==
    LET saved == SaveResult(h, files, run.result, mode)
    IN  IF run.pc = "raised"
        THEN [handler |-> [saved.handler EXCEPT !.response = ErrorResponse(500, run.error)],
              files |-> saved.files]
        ELSE IF run.pc = "returned" THEN saved
        ELSE [handler |-> [h EXCEPT !.pc = "in_orchestrator"], files |-> files]

\* app.py lines 122-146, claude_seo_ui.py lines 93-113, from the point the
\* orchestrator call has got to: its exception is answered with status 500,
\* its document is saved and answered with success
Answer(h, files, run, mode) ==
    IF run.pc = "raised"
    THEN [handler |-> [h EXCEPT !.pc = "answered", !.response = ErrorResponse(500, run.error)],
          files |-> files]
    ELSE IF run.pc = "returned" THEN SaveResult(h, files, run.result, mode)
    ELSE [handler |-> [h EXCEPT !.pc = "in_orchestrator"], files |-> files]

\* POST /start_workflow with workflow_type, steps and data arrives
StartWorkflow(workflow_type, steps, data) ==
    /\ handler.pc \in {"idle", "answered"}
    /\ handler.served < MaxRequests
    /\ LET r == handler.served + 1
           no_steps == workflow_type = "custom" /\ steps = <<>>
           h == [handler EXCEPT !.served = r,
                                !.request = [workflow_type |-> workflow_type,
                                             steps |-> steps, data |-> data],
                                !.called = ~no_steps,
                                !.files_before = results_dir]
       IN  IF no_steps
           THEN /\ handler' = [h EXCEPT !.pc = "answered",
                                        !.response = ErrorResponse(400, NoStepsSelected)]
                /\ UNCHANGED <<api_mode, api_key, api_client, workflow_templates, runs,
                               results_dir>>
           ELSE /\ IF workflow_type = "custom"
                   THEN RunCustomWorkflow(r, steps, data)
                   ELSE RunWorkflow(r, workflow_type, data)
                /\ LET answer == Answer(h, results_dir, runs'[r], api_mode)
                   IN  /\ handler' = answer.handler
                       /\ results_dir' = answer.files
    /\ UNCHANGED <<history, ui, mock_calls, parsed, built, api_call, minimal, key_manager>>

\* the executor returns to the orchestrator call the handler is waiting in
HandlerStep(http, step_execution_time) ==
    /\ handler.pc = "in_orchestrator"
    /\ ExecutorReturn(handler.served, http, step_execution_time)
    /\ LET answer == Answer(handler, results_dir, runs'[handler.served], api_mode)
       IN  /\ handler' = answer.handler
           /\ results_dir' = answer.files
    /\ UNCHANGED <<history, ui, mock_calls, parsed, built, api_call, minimal, key_manager>>

----------------------------------------------------------------------------
(* The minimal orchestrator (minimal-orchestrator.py) *)

IdleMinimal ==
    [pc |-> "idle", entry |-> "none", workflow_type |-> "", steps |-> <<>>,
     initial_data |-> EmptyDict, summary_at_call |-> EmptyDict,
     caller_summary |-> EmptyDict, result |-> EmptyDict, error |-> NoError]

\* 2.5 seconds
MockStepTime == Ratio(5, 2)

\* len(steps) * 2.5
MockTotalTime(steps) == Ratio(5 * Len(steps), 2)

\* result["execution_summary"]["execution_log"] of a mapping without that key
SummaryKeyError ==
    [type |-> "KeyError", text |-> "execution_log",
     workflow_type |-> "", available_workflows |-> {}]

\* _create_mock_result, lines 91-100
MockInitialResult(workflow_type, workflow_info) ==
    [workflow_type |-> Atom(workflow_type, {}),
     workflow_description |-> Atom(workflow_info.description, {}),
     execution_summary |->
        SummaryValue([total_steps_executed |-> Len(workflow_info.steps),
                      total_execution_time_seconds |-> MockTotalTime(workflow_info.steps),
                      average_step_time_seconds |-> MockStepTime,
                      execution_log |-> <<>>])]

\* _create_mock_result, lines 109-115
MockLogEntry(step, initial_data) ==
    [timestamp |-> "now", agent |-> step,
     execution_time_seconds |-> MockStepTime,
     input_data_keys |-> DOMAIN initial_data,
     output_data_keys |-> {"analysis", "recommendations"}]

\* _create_mock_result, lines 118-180: the output of a step, one text per
\* known step and a generic one naming any other step
MockStepOutput(step) ==
    [analysis |-> Atom(IF step \in KnownSteps THEN "analysis of " \o step
                       ELSE "Processed step: " \o step, {}),
     recommendations |-> Atom(IF step \in KnownSteps THEN "recommendations of " \o step
                              ELSE "Generic recommendations", {})]

\* _create_mock_result, lines 107-180: the loop from step n on
RECURSIVE MockSteps(_, _, _, _)
MockSteps(state, steps, initial_data, n) ==
    IF n > Len(steps) THEN state
    ELSE LET logged == LogAppend(state.result, state.cell,
                                 MockLogEntry(steps[n], initial_data))
         IN  IF logged.raised
             THEN [state EXCEPT !.raised = TRUE,
                                !.error = IF SummaryIsMapping(state.result)
                                          THEN SummaryKeyError ELSE SummaryTypeError]
             ELSE MockSteps([state EXCEPT
                                !.result = DictSet(logged.result, "output_" \o steps[n],
                                                   DictValue(MockStepOutput(steps[n]))),
                                !.cell = logged.cell],
                            steps, initial_data, n + 1)

\* _create_mock_result, lines 89-182
CreateMockResult(workflow_type, workflow_info, data) ==
    MockSteps([raised |-> FALSE, error |-> NoError,
               result |-> DictUpdate(MockInitialResult(workflow_type, workflow_info),
                                     data.mapping),
               cell |-> data.summary],
              workflow_info.steps, data.mapping, 1)

\* the call of the minimal orchestrator over
MinimalDone(entry, workflow_type, steps, data, outcome) ==
    [pc |-> IF outcome.raised THEN "raised" ELSE "returned",
     entry |-> entry, workflow_type |-> workflow_type, steps |-> steps,
     initial_data |-> data.mapping, summary_at_call |-> data.summary,
     caller_summary |-> outcome.cell, result |-> outcome.result, error |-> outcome.error]

\* minimal-orchestrator.py: run_workflow(workflow_type, initial_data)
MinimalRunWorkflow(workflow_type, data) ==
    /\ minimal.pc = "idle"
    /\ minimal' =
        IF workflow_type \notin DOMAIN WorkflowTemplates
        THEN MinimalDone("run_workflow", workflow_type, <<>>, data,
                         [raised |-> TRUE,
                          error |-> UnknownWorkflowError(workflow_type, WorkflowTemplates),
                          result |-> EmptyDict, cell |-> data.summary])
        ELSE MinimalDone("run_workflow", workflow_type,
                         WorkflowTemplates[workflow_type].steps, data,
                         CreateMockResult(workflow_type, WorkflowTemplates[workflow_type], data))
    /\ UNCHANGED <<core, built, api_call, handler, results_dir, key_manager>>

\* minimal-orchestrator.py: run_custom_workflow(steps, initial_data)
MinimalRunCustomWorkflow(steps, data) ==
    /\ minimal.pc = "idle"
    /\ minimal' =
        MinimalDone("run_custom_workflow", "custom", steps, data,
                    CreateMockResult("custom",
                                     [description |-> CustomDescription, steps |-> steps],
                                     data))
    /\ UNCHANGED <<core, built, api_call, handler, results_dir, key_manager>>

----------------------------------------------------------------------------
(* The key manager (key_manager.py) *)

(* A JSON value as json.loads returns it *)
JStr(s) == [t |-> "str", s |-> s, n |-> 0, d |-> <<>>]
JNum(n) == [t |-> "num", s |-> "", n |-> n, d |-> <<>>]
JList == [t |-> "list", s |-> "", n |-> 0, d |-> <<>>]
JObj(d) == [t |-> "object", s |-> "", n |-> 0, d |-> d]

\* bool(value)
Truthy(value) ==
    CASE value.t = "str"    -> value.s # ""
      [] value.t = "num"    -> value.n # 0
      [] value.t = "list"   -> FALSE
      [] value.t = "object" -> DOMAIN value.d # {}

(* The keys file as load_keys finds it *)
MissingFile == [kind |-> "missing", value |-> JList]
EmptyFile == [kind |-> "empty", value |-> JList]
UnreadableFile == [kind |-> "unreadable", value |-> JList]
InvalidJsonFile == [kind |-> "invalid_json", value |-> JList]
JsonFile(value) == [kind |-> "json", value |-> value]

\* __init__, lines 25-33, before the first load; force_mock is whether the
\* environment sets FORCE_MOCK_MODE to true
NewKeyManager(force_mock) ==
    [keys |-> JObj(EmptyDict), keys_loaded |-> FALSE, status |-> "unknown",
     force_mock |-> force_mock, file |-> MissingFile, loads |-> 0]

\* get_key, lines 135-142: an AttributeError of .get on a value that is no
\* mapping is caught and answered with ""
GetKey(m, provider, key_name) ==
    IF ~m.keys_loaded THEN JStr("")
    ELSE IF m.keys.t # "object" THEN JStr("")
    ELSE LET section == IF provider \in DOMAIN m.keys.d THEN m.keys.d[provider]
                        ELSE JObj(EmptyDict)
         IN  IF section.t # "object" THEN JStr("")
             ELSE IF key_name \in DOMAIN section.d THEN section.d[key_name]
             ELSE JStr("")

\* load_keys, lines 36-122
LoadKeys(m, file) ==
    LET found == [m EXCEPT !.file = file, !.loads = @ + 1]
    IN  CASE file.kind = "missing"      -> [found EXCEPT !.status = "file_not_found"]
          [] file.kind = "empty"        -> [found EXCEPT !.status = "empty_file"]
          [] file.kind = "unreadable"   -> [found EXCEPT !.status = "permission_denied"]
          [] file.kind = "invalid_json" -> [found EXCEPT !.status = "invalid_json"]
          [] file.kind = "json" ->
                LET loaded == [found EXCEPT !.keys = file.value, !.keys_loaded = TRUE]
                    anthropic_key == GetKey(loaded, "anthropic", "api_key")
                IN  IF file.value.t # "object"
                    THEN [found EXCEPT !.keys = JObj(EmptyDict), !.keys_loaded = FALSE,
                                       !.status = "invalid_format"]
                    ELSE IF ~Truthy(anthropic_key)
                    THEN [loaded EXCEPT !.status = "missing_key"]
                    ELSE IF anthropic_key.t = "num"
                    THEN [loaded EXCEPT !.status = "read_error"]
                    ELSE [loaded EXCEPT !.status = "success"]

\* get_api_mode_info, lines 148-170: the mode
GetApiModeInfo(m) ==
    IF m.force_mock THEN "mock"
    ELSE IF ~m.keys_loaded THEN "mock"
    ELSE IF ~Truthy(GetKey(m, "anthropic", "api_key")) THEN "mock"
    ELSE "live"

MaxLoads == 3

\* load_keys() is called again, the keys file being as file
LoadKeysCall(file) ==
    /\ key_manager.loads < MaxLoads
    /\ key_manager' = LoadKeys(key_manager, file)
    /\ UNCHANGED <<core, built, api_call, handler, results_dir, minimal>>

----------------------------------------------------------------------------
(* Specification *)

\* a constructor creating the client in live mode whatever the key
ConstructClientWithoutKey(mode, key) ==
    /\ api_mode = mode
    /\ api_key = key
    /\ api_client = IF mode = "live" THEN "client" ELSE "None"
    /\ workflow_templates = WorkflowTemplates

\* the state after ClaudeSEOWorkflowOrchestrator(api_mode, api_key)
Construct(mode, key) ==
    /\ api_mode = mode
    /\ api_key = key
    /\ api_client = IF mode = "live" /\ key # "" THEN "client" ELSE "None"
    /\ workflow_templates = WorkflowTemplates

\* nothing followed yet
NoHistory ==
    [entry |-> "none", workflow_type |-> "", steps |-> <<>>,
     data |-> Data(EmptyDict, EmptyDict), responses |-> <<>>]

Init ==
    /\ \E mode \in {"live", "mock"}, key \in {"", "sk-ant-key"} : Construct(mode, key)
    /\ runs = [r \in {1} |-> IdleRun]
    /\ history = [r \in {1} |-> NoHistory]
    /\ ui = IdleUi
    /\ mock_calls = <<>>
    /\ parsed = NotParsed
    /\ built = NotBuilt
    /\ api_call = NoApiCall
    /\ handler = IdleHandler("app")
    /\ results_dir = EmptyDict
    /\ minimal = IdleMinimal
    /\ key_manager = NewKeyManager(FALSE)

Next ==
    \/ \E r \in DOMAIN runs, workflow_type \in WorkflowNames, data \in InitialDatas :
            RunWorkflow(r, workflow_type, data) /\ UNCHANGED <<history, ui, mock_calls, parsed, rest>>
    \/ \E r \in DOMAIN runs, steps \in StepLists, data \in InitialDatas :
            RunCustomWorkflow(r, steps, data) /\ UNCHANGED <<history, ui, mock_calls, parsed, rest>>
    \/ \E r \in DOMAIN runs, http \in HttpOutcomes, t \in StepTimes :
            ExecutorReturn(r, http, t) /\ UNCHANGED <<history, ui, mock_calls, parsed, rest>>

Spec == Init /\ [][Next]_vars

----------------------------------------------------------------------------
(* The HTTP handler serving requests *)

AppWorkflowNames == {"technical_audit", "not_a_real_workflow", "custom"}

AppStepLists == {<<>>, <<"keyword_research">>}

AppDatas ==
    {Data(EmptyDict, EmptyDict),
     Data([execution_summary |-> Atom("caller summary", {})], EmptyDict)}

AppHttpOutcomes ==
    {HttpTimeout, HttpOk(<<"FENCE_JSON", "LBRACE", "MEMBERS_CANON", "RBRACE", "FENCE">>)}

\* app.py lines 31-41: the mode and key the key manager gave;
\* claude_seo_ui.py line 21: the constructor's defaults
AppInit ==
    /\ \E app \in {"app", "claude_seo_ui"} :
            /\ handler = IdleHandler(app)
            /\ IF app = "app"
               THEN \E c \in {<<"live", "sk-ant-key">>, <<"mock", "sk-ant-key">>, <<"mock", "">>} :
                        Construct(c[1], c[2])
               ELSE Construct("mock", "")
    /\ runs = [r \in 1..MaxRequests |-> IdleRun]
    /\ history = <<>>
    /\ ui = IdleUi
    /\ mock_calls = <<>>
    /\ parsed = NotParsed
    /\ built = NotBuilt
    /\ api_call = NoApiCall
    /\ results_dir = EmptyDict
    /\ minimal = IdleMinimal
    /\ key_manager = NewKeyManager(FALSE)

AppNext ==
    \/ \E workflow_type \in AppWorkflowNames, steps \in AppStepLists, data \in AppDatas :
            StartWorkflow(workflow_type, steps, data)
    \/ \E http \in AppHttpOutcomes : HandlerStep(http, 0)

AppSpec == AppInit /\ [][AppNext]_vars

----------------------------------------------------------------------------
(* The minimal orchestrator called *)

MaxMinimalSteps == 2

MinimalStepIds == {"keyword_research", "technical_seo", "seo_strategy", "extra"}

MinimalStepLists == UNION {[1..n -> MinimalStepIds] : n \in 0..MaxMinimalSteps}

\* the summary of an earlier document of the minimal orchestrator
MinimalPriorSummary ==
    [total_steps_executed |-> 1,
     total_execution_time_seconds |-> MockTotalTime(<<"seo_strategy">>),
     average_step_time_seconds |-> MockStepTime,
     execution_log |-> <<MockLogEntry("seo_strategy", EmptyDict)>>]

MinimalDatas ==
    {Data(EmptyDict, EmptyDict),
     Data([topic |-> Atom("gap report", {"gap"})], EmptyDict),
     Data([output_seo_strategy |-> Atom("caller output", {})], EmptyDict),
     Data([execution_summary |-> Atom("caller summary", {})], EmptyDict),
     Data([execution_summary |-> Ref], MinimalPriorSummary),
     Data([execution_summary |-> Ref], EmptyDict)}

MinimalInit ==
    /\ Construct("mock", "")
    /\ runs = <<>>
    /\ history = <<>>
    /\ ui = IdleUi
    /\ mock_calls = <<>>
    /\ parsed = NotParsed
    /\ built = NotBuilt
    /\ api_call = NoApiCall
    /\ handler = IdleHandler("app")
    /\ results_dir = EmptyDict
    /\ minimal = IdleMinimal
    /\ key_manager = NewKeyManager(FALSE)

MinimalNext ==
    \/ \E workflow_type \in WorkflowNames, data \in MinimalDatas :
            MinimalRunWorkflow(workflow_type, data)
    \/ \E steps \in MinimalStepLists, data \in MinimalDatas :
            MinimalRunCustomWorkflow(steps, data)

MinimalSpec == MinimalInit /\ [][MinimalNext]_vars

----------------------------------------------------------------------------
(* The key manager over a changing keys file *)

KeysValues ==
    {JList, JObj(EmptyDict), JObj([anthropic |-> JStr("x")]),
     JObj([anthropic |-> JObj([api_key |-> JStr("")])]),
     JObj([anthropic |-> JObj([api_key |-> JNum(5)])]),
     JObj([anthropic |-> JObj([api_key |-> JStr("sk-ant-key")])]),
     JObj([anthropic |-> JObj([api_key |-> JStr("sk-ant-other")])])}

KeysFiles ==
    {MissingFile, EmptyFile, UnreadableFile, InvalidJsonFile}
        \cup {JsonFile(value) : value \in KeysValues}

\* the state after KeyManager(): the constructor makes the first load
KeyInit ==
    /\ Construct("mock", "")
    /\ runs = <<>>
    /\ history = <<>>
    /\ ui = IdleUi
    /\ mock_calls = <<>>
    /\ parsed = NotParsed
    /\ built = NotBuilt
    /\ api_call = NoApiCall
    /\ handler = IdleHandler("app")
    /\ results_dir = EmptyDict
    /\ minimal = IdleMinimal
    /\ \E force_mock \in BOOLEAN, file \in KeysFiles :
            key_manager = LoadKeys(NewKeyManager(force_mock), file)

KeyNext == \E file \in KeysFiles : LoadKeysCall(file)

KeySpec == KeyInit /\ [][KeyNext]_vars

----------------------------------------------------------------------------
(* The UI formatter applied to the documents a workflow can hand it *)

UiFields ==
    {"analysis", "response_text", "output", "result", "text", "content", "recommendations"}

\* each field holds a value of its own
UiFieldValue(field) == Atom(field \o " value", {})

\* step outputs: a mapping with any of the fields, a plain string, a list
UiStepDatas ==
    {DictValue([field \in fields |-> UiFieldValue(field)]) : fields \in SUBSET UiFields}
        \cup {StrValue("plain text"), Atom("a list", {})}

UiDocuments ==
    {[input_keyword_research |-> DictValue(EmptyDict), output_keyword_research |-> step_data] :
            step_data \in UiStepDatas}
        \cup {[output_technical_seo |-> DictValue([analysis |-> UiFieldValue("analysis"),
                                                   recommendations |-> UiFieldValue("recommendations"),
                                                   output |-> UiFieldValue("output")]),
                output_extra |-> StrValue("plain text")],
               [input_technical_seo |-> DictValue(EmptyDict),
                technical_seo |-> DictValue([output |-> UiFieldValue("output")])]}

UiWorkflowNames == {"technical_audit", "custom"}

UiStepLists == {<<"keyword_research", "technical_seo">>}

UiInit ==
    /\ Construct("mock", "")
    /\ runs = <<>>
    /\ history = <<>>
    /\ ui = IdleUi
    /\ mock_calls = <<>>
    /\ parsed = NotParsed
    /\ built = NotBuilt
    /\ api_call = NoApiCall
    /\ handler = IdleHandler("app")
    /\ results_dir = EmptyDict
    /\ minimal = IdleMinimal
    /\ key_manager = NewKeyManager(FALSE)

UiNext ==
    \/ \E result \in UiDocuments, workflow_type \in UiWorkflowNames, steps \in UiStepLists :
            FormatForUiCall(result, workflow_type, steps)
    \/ FormatForUiAgain

UiSpec == UiInit /\ [][UiNext]_vars

----------------------------------------------------------------------------
(* The mock generator called directly *)

\* the prompts by the words they contain; a text containing keywords
\* contains keyword
Prompts == {prompt \in SUBSET Markers : "keywords" \in prompt => "keyword" \in prompt}

MockInit ==
    /\ Construct("mock", "")
    /\ runs = <<>>
    /\ history = <<>>
    /\ ui = IdleUi
    /\ mock_calls = <<>>
    /\ parsed = NotParsed
    /\ built = NotBuilt
    /\ api_call = NoApiCall
    /\ handler = IdleHandler("app")
    /\ results_dir = EmptyDict
    /\ minimal = IdleMinimal
    /\ key_manager = NewKeyManager(FALSE)

\* one call on any prompt
MockNext ==
    \E prompt \in Prompts : mock_calls = <<>> /\ GenerateMockResponseCall(1, prompt)

MockSpec == MockInit /\ [][MockNext]_vars

\* the number of calls followed
MaxMockCalls == 3

\* two orchestrators, of whatever construction
MockInstances == {1, 2}

RepeatPrompts ==
    {{}, {"keyword", "strategy"}, {"strategy"}, {"content", "brief", "technical"}}

\* calls on either instance in any order
MockRepeatNext ==
    \E instance \in MockInstances, prompt \in RepeatPrompts :
        Len(mock_calls) < MaxMockCalls /\ GenerateMockResponseCall(instance, prompt)

MockRepeatSpec == MockInit /\ [][MockRepeatNext]_vars

----------------------------------------------------------------------------
(* The response parser called directly *)

\* the longest text, in lines
MaxLines == 3

Texts == UNION {[1..n -> Lines] : n \in 0..MaxLines}

ParseInit ==
    /\ Construct("live", "sk-ant-key")
    /\ runs = <<>>
    /\ history = <<>>
    /\ ui = IdleUi
    /\ mock_calls = <<>>
    /\ parsed = NotParsed
    /\ built = NotBuilt
    /\ api_call = NoApiCall
    /\ handler = IdleHandler("app")
    /\ results_dir = EmptyDict
    /\ minimal = IdleMinimal
    /\ key_manager = NewKeyManager(FALSE)

ParseNext == \E content \in Texts : ParseResponseContentCall(content)

ParseSpec == ParseInit /\ [][ParseNext]_vars

----------------------------------------------------------------------------
(* The prompt functions called directly on any step identifier *)

StepIdentifiers ==
    KnownSteps \cup {"", "custom", "unknown_step", "KEYWORD_RESEARCH", "keyword_research "}

\* contexts: initial data, alone or with a step output merged in
PromptDatas ==
    InitialDatas
        \cup {Data(DictUpdate(data.mapping, CallClaudeApi("mock", "None", {"keyword"}, HttpTimeout)),
                   data.summary) : data \in InitialDatas}
        \cup {Data(DictUpdate(data.mapping, CallClaudeApi("mock", "None", {"strategy"}, HttpTimeout)),
                   data.summary) : data \in InitialDatas}

PromptInit ==
    /\ Construct("mock", "")
    /\ runs = <<>>
    /\ history = <<>>
    /\ ui = IdleUi
    /\ mock_calls = <<>>
    /\ parsed = NotParsed
    /\ built = NotBuilt
    /\ api_call = NoApiCall
    /\ handler = IdleHandler("app")
    /\ results_dir = EmptyDict
    /\ minimal = IdleMinimal
    /\ key_manager = NewKeyManager(FALSE)

PromptNext == \E step \in StepIdentifiers, data \in PromptDatas : BuildPrompts(step, data)

PromptSpec == PromptInit /\ [][PromptNext]_vars

----------------------------------------------------------------------------
(* The live client called directly *)

StatusCodes == {400, 401, 403, 429, 500, 529}

ApiHttpOutcomes ==
    {HttpTimeout, HttpOkNoContent, HttpOkNotJson}
        \cup {HttpStatus(code) : code \in StatusCodes}
        \cup {HttpOk(content) : content \in Texts}

ApiInit ==
    /\ Construct("live", "sk-ant-key")
    /\ runs = <<>>
    /\ history = <<>>
    /\ ui = IdleUi
    /\ mock_calls = <<>>
    /\ parsed = NotParsed
    /\ built = NotBuilt
    /\ api_call = NoApiCall
    /\ handler = IdleHandler("app")
    /\ results_dir = EmptyDict
    /\ minimal = IdleMinimal
    /\ key_manager = NewKeyManager(FALSE)

ApiNext == \E http \in ApiHttpOutcomes : CallApiCall(http)

ApiSpec == ApiInit /\ [][ApiNext]_vars

----------------------------------------------------------------------------
(* Interleaved runs on one orchestrator (app.py: the module-level instance   *)
(* serves every request)                                                     *)

ConcurrentRuns == {1, 2}

ConcurrentWorkflowNames == {"technical_audit", "not_a_real_workflow"}

ConcurrentStepLists == {<<"keyword_research">>}

ConcurrentDatas ==
    {Data([analysis |-> Atom("caller analysis", {}), topic |-> Atom("gap report", {"gap"})], EmptyDict),
     Data([execution_summary |-> Atom("caller summary", {})], EmptyDict),
     Data([execution_summary |-> Ref], PriorSummary)}

ConcurrentHttpOutcomes ==
    {HttpTimeout, HttpOk(<<"PROSE">>),
     HttpOk(<<"PROSE", "FENCE_JSON", "LBRACE", "MEMBERS_CANON", "RBRACE", "FENCE">>)}

\* the history of a run whose entry point was just called
Called(entry, workflow_type, steps, data) ==
    [entry |-> entry, workflow_type |-> workflow_type, steps |-> steps,
     data |-> data, responses |-> <<>>]

\* the history of a run that received one more executor response
Received(h, http, step_execution_time) ==
    [h EXCEPT !.responses = Append(@, [http |-> http, time |-> step_execution_time])]

\* two requests are served by the one instance; each request parses its own
\* body, so each run has its own initial-data objects
ConcurrentInit ==
    /\ \E c \in {<<"live", "sk-ant-key">>, <<"mock", "">>} : Construct(c[1], c[2])
    /\ runs = [r \in ConcurrentRuns |-> IdleRun]
    /\ history = [r \in ConcurrentRuns |-> NoHistory]
    /\ ui = IdleUi
    /\ mock_calls = <<>>
    /\ parsed = NotParsed
    /\ built = NotBuilt
    /\ api_call = NoApiCall
    /\ handler = IdleHandler("app")
    /\ results_dir = EmptyDict
    /\ minimal = IdleMinimal
    /\ key_manager = NewKeyManager(FALSE)

ConcurrentNext ==
    \/ \E r \in DOMAIN runs, workflow_type \in ConcurrentWorkflowNames, data \in ConcurrentDatas :
            /\ RunWorkflow(r, workflow_type, data)
            /\ history' = [history EXCEPT ![r] = Called("run_workflow", workflow_type, <<>>, data)]
            /\ UNCHANGED <<ui, mock_calls, parsed, rest>>
    \/ \E r \in DOMAIN runs, steps \in ConcurrentStepLists, data \in ConcurrentDatas :
            /\ RunCustomWorkflow(r, steps, data)
            /\ history' = [history EXCEPT ![r] = Called("run_custom_workflow", "custom", steps, data)]
            /\ UNCHANGED <<ui, mock_calls, parsed, rest>>
    \/ \E r \in DOMAIN runs, http \in ConcurrentHttpOutcomes, t \in StepTimes :
            /\ ExecutorReturn(r, http, t)
            /\ history' = [history EXCEPT ![r] = Received(@, http, t)]
            /\ UNCHANGED <<ui, mock_calls, parsed, rest>>

ConcurrentSpec == ConcurrentInit /\ [][ConcurrentNext]_vars

----------------------------------------------------------------------------
(* Reading a run *)

RunIds == DOMAIN runs

CatalogNames == {"content_strategy", "content_creation", "technical_audit", "full_seo_analysis"}

\* the call is over: it returned a document or raised
Over(run) == run.pc \in {"returned", "raised"}

\* a run_workflow call with a catalog name
CatalogRun(run) == run.entry = "run_workflow" /\ run.workflow_type \in CatalogNames

\* the step list the catalog gives a workflow name
CatalogSteps(workflow_type) == WorkflowTemplates[workflow_type].steps

\* the execution log of the document, <<>> when the document holds none
ExecutionLog(run) ==
    IF "execution_summary" \in DOMAIN run.result
       /\ SummaryIsMapping(run.result)
       /\ "execution_log" \in DOMAIN SummaryOf(run.result, run.caller_summary)
    THEN SummaryOf(run.result, run.caller_summary)["execution_log"]
    ELSE <<>>

LogAgents(run) == [j \in DOMAIN ExecutionLog(run) |-> ExecutionLog(run)[j].agent]

\* the executor events of steps run strictly one after another
Sequential(steps) ==
    [j \in 1..(2 * Len(steps)) |->
        [ev |-> IF j % 2 = 1 THEN "call" ELSE "return", step |-> steps[(j + 1) \div 2]]]

IsPrefix(s, t) == Len(s) <= Len(t) /\ \A j \in DOMAIN s : s[j] = t[j]

\* the steps whose executor call has returned
StepsRun(run) == {run.events[j].step : j \in {k \in DOMAIN run.events : run.events[k].ev = "return"}}

RECURSIVE SumTimes(_)
SumTimes(log) ==
    IF log = <<>> THEN 0
    ELSE log[1].execution_time_seconds + SumTimes(Tail(log))

\* the output of a step was produced by the mock generator
IsMock(step_output) == step_output["_api_info"].mock_data

----------------------------------------------------------------------------
(* C1: for every known workflow name, run_workflow invokes the step executor *)
(* once per catalog step, one call after the other in catalog order, and the *)
(* agents of the execution log are the catalog's step list in that order.    *)
C1_SequentialCatalogOrder ==
    \A r \in RunIds :
        CatalogRun(runs[r]) =>
            /\ IsPrefix(runs[r].events, Sequential(CatalogSteps(runs[r].workflow_type)))
            /\ Over(runs[r]) =>
                /\ runs[r].events = Sequential(CatalogSteps(runs[r].workflow_type))
                /\ LogAgents(runs[r]) = CatalogSteps(runs[r].workflow_type)

(* C2: after run_workflow returns, every step that ran has exactly one       *)
(* input_<step> entry, one output_<step> entry and one execution-log entry,  *)
(* also when the live call of the step failed.                               *)
C2_OneEntryPerStep ==
    \A r \in RunIds :
        (runs[r].entry = "run_workflow" /\ runs[r].pc = "returned") =>
            \A step \in StepsRun(runs[r]) :
                /\ ("input_" \o step) \in DOMAIN runs[r].result
                /\ ("output_" \o step) \in DOMAIN runs[r].result
                /\ Cardinality({j \in DOMAIN ExecutionLog(runs[r]) :
                                    ExecutionLog(runs[r])[j].agent = step}) = 1

\* the context after the first n steps: their outputs merged onto the initial
\* data in execution order, a later key overwriting an earlier one
RECURSIVE MergedContext(_, _)
MergedContext(run, n) ==
    IF n = 0 THEN run.initial_data
    ELSE DictUpdate(MergedContext(run, n - 1),
                    run.result["output_" \o run.workflow_steps[n]].d)

\* the number of steps stored in the result so far
StepsStored(run) == Cardinality({j \in DOMAIN run.events : run.events[j].ev = "return"})

(* C3: the context passed to step N, recorded as input_<step N>, is the      *)
(* initial data with the outputs of steps 1..N-1 merged onto it in execution *)
(* order, later keys overwriting earlier ones; the first step's input is the *)
(* initial data.                                                             *)
C3_ContextIsMergedOutputs ==
    \A r \in RunIds :
        /\ \A n \in 1..StepsStored(runs[r]) :
                runs[r].result["input_" \o runs[r].workflow_steps[n]].d
                    = MergedContext(runs[r], n - 1)
        /\ runs[r].pc = "in_call" =>
                /\ runs[r].current_data = MergedContext(runs[r], runs[r].i - 1)
                /\ runs[r].prompt =
                        FormatInputForStep(runs[r].workflow_steps[runs[r].i],
                                           MergedContext(runs[r], runs[r].i - 1),
                                           runs[r].caller_summary)

\* a returned run of three steps or more whose initial analysis key was
\* overwritten by step 1 and again, with another value, by step 2
C3_Witness ==
    \E r \in RunIds :
        /\ runs[r].pc = "returned"
        /\ Len(runs[r].workflow_steps) >= 3
        /\ "analysis" \in DOMAIN runs[r].initial_data
        /\ runs[r].result["input_" \o runs[r].workflow_steps[1]].d = runs[r].initial_data
        /\ runs[r].result["input_" \o runs[r].workflow_steps[2]].d["analysis"]
                # runs[r].initial_data["analysis"]
        /\ runs[r].result["input_" \o runs[r].workflow_steps[3]].d["analysis"]
                # runs[r].result["input_" \o runs[r].workflow_steps[2]].d["analysis"]
        /\ runs[r].result["input_" \o runs[r].workflow_steps[3]].d["topic"]
                = runs[r].initial_data["topic"]

(* C4: run_custom_workflow with a non-empty step list returns a document in  *)
(* which exactly the supplied steps ran in the supplied order, the first     *)
(* input is the initial data, later inputs hold every initial key and every  *)
(* key of the earlier outputs, and the description is the custom one.        *)
C4_CustomRunsSuppliedSteps ==
    \A r \in RunIds :
        (runs[r].entry = "run_custom_workflow" /\ runs[r].steps_arg # <<>>) =>
            /\ runs[r].pc # "raised"
            /\ runs[r].workflow_steps = runs[r].steps_arg
            /\ runs[r].pc = "returned" =>
                /\ runs[r].events = Sequential(runs[r].steps_arg)
                /\ runs[r].result["workflow_description"] = Atom(CustomDescription, {})
                /\ runs[r].result["input_" \o runs[r].steps_arg[1]].d = runs[r].initial_data
                /\ \A n \in 2..Len(runs[r].steps_arg) :
                        DOMAIN MergedContext(runs[r], n - 1)
                            \subseteq DOMAIN runs[r].result["input_" \o runs[r].steps_arg[n]].d

(* C5: run_workflow with a name outside the four catalog workflows fails     *)
(* with the unknown-workflow error listing all catalog names, before any     *)
(* executor call and without a result document.                              *)
C5_UnknownWorkflowRejected ==
    \A r \in RunIds :
        (runs[r].entry = "run_workflow" /\ runs[r].workflow_type \notin CatalogNames) =>
            /\ runs[r].pc = "raised"
            /\ runs[r].error.type = "ValueError"
            /\ runs[r].error.text = "Unknown workflow type"
            /\ runs[r].error.workflow_type = runs[r].workflow_type
            /\ runs[r].error.available_workflows = CatalogNames
            /\ runs[r].events = <<>>
            /\ runs[r].result = EmptyDict

C5_Witness ==
    \E r \in RunIds :
        /\ runs[r].entry = "run_workflow"
        /\ runs[r].workflow_type = "not_a_real_workflow"
        /\ runs[r].initial_data # EmptyDict
        /\ runs[r].pc = "raised"

(* C6: a custom workflow with an empty step list fails with a no-steps error *)
(* distinct from the unknown-workflow error and returns no document.         *)
C6_EmptyCustomIsNoStepsError ==
    \A r \in RunIds :
        (runs[r].entry = "run_custom_workflow" /\ runs[r].steps_arg = <<>>) =>
            /\ runs[r].pc = "raised"
            /\ runs[r].result = EmptyDict
            /\ runs[r].error.text # "Unknown workflow type"

(* C7: when the live executor fails on steps, run_workflow does not abort:   *)
(* each failed step gets a mock record tagged mock_data, the remaining steps *)
(* run and a complete document holding every step is returned.               *)
C7_FallbackNeverAborts ==
    \A r \in RunIds :
        CatalogRun(runs[r]) =>
            /\ runs[r].failed_steps # {} => runs[r].pc # "raised"
            /\ \A step \in runs[r].failed_steps :
                    /\ ("output_" \o step) \in DOMAIN runs[r].result
                    /\ IsMock(runs[r].result["output_" \o step].d)
            /\ (runs[r].failed_steps # {} /\ Over(runs[r])) =>
                    \A n \in DOMAIN CatalogSteps(runs[r].workflow_type) :
                        /\ ("input_" \o CatalogSteps(runs[r].workflow_type)[n]) \in DOMAIN runs[r].result
                        /\ ("output_" \o CatalogSteps(runs[r].workflow_type)[n]) \in DOMAIN runs[r].result

(* C8: every record stored as output_<step> in a returned document carries   *)
(* an analysis field and a recommendations field, whatever the executor      *)
(* returned.                                                                 *)
C8_OutputsAreCanonical ==
    \A r \in RunIds :
        runs[r].pc = "returned" =>
            \A n \in DOMAIN runs[r].workflow_steps :
                {"analysis", "recommendations"}
                    \subseteq DOMAIN runs[r].result["output_" \o runs[r].workflow_steps[n]].d

\* the execution summary of a returned document
Summary(run) == SummaryOf(run.result, run.caller_summary)

(* C9: in every document run_workflow returns, total_steps_executed is the   *)
(* length of execution_log, and average_step_time_seconds is the total time  *)
(* divided by total_steps_executed when that is positive, and 0 otherwise.   *)
C9_SummaryCounts ==
    \A r \in RunIds :
        (runs[r].entry = "run_workflow" /\ runs[r].pc = "returned") =>
            /\ Summary(runs[r])["total_steps_executed"] = Len(Summary(runs[r])["execution_log"])
            /\ IF Summary(runs[r])["total_steps_executed"] > 0
               THEN RatioEq(Summary(runs[r])["average_step_time_seconds"],
                            Ratio(Summary(runs[r])["total_execution_time_seconds"],
                                  Summary(runs[r])["total_steps_executed"]))
               ELSE Summary(runs[r])["average_step_time_seconds"].num = 0

(* C10: for a run of N steps, total_execution_time_seconds is the sum of the *)
(* execution_time_seconds of the N execution-log entries, and                *)
(* average_step_time_seconds is that sum divided by N.                       *)
C10_TotalIsSumOfStepTimes ==
    \A r \in RunIds :
        (runs[r].entry = "run_workflow" /\ runs[r].pc = "returned") =>
            /\ Len(Summary(runs[r])["execution_log"]) = Len(runs[r].workflow_steps)
            /\ Summary(runs[r])["total_execution_time_seconds"]
                    = SumTimes(Summary(runs[r])["execution_log"])
            /\ RatioEq(Summary(runs[r])["average_step_time_seconds"],
                       Ratio(SumTimes(Summary(runs[r])["execution_log"]),
                             Len(runs[r].workflow_steps)))

\* the caller's initial-data mapping as the caller reads it: a reference is
\* followed to the contents of the object it names
CallerData(mapping, cell) ==
    [k \in DOMAIN mapping |->
        IF mapping[k].t = "ref" THEN SummaryValue(cell) ELSE mapping[k]]

(* C11: run_workflow never mutates the caller's initial-data mapping: during *)
(* and after the run it has the keys and values it had when the call was     *)
(* made, the step outputs being merged into the run's own copy only.         *)
C11_CallerDataUnchanged ==
    \A r \in RunIds :
        runs[r].entry = "run_workflow" =>
            CallerData(runs[r].initial_data, runs[r].caller_summary)
                = CallerData(runs[r].initial_data, runs[r].summary_at_call)

\* the locals of a run that received the first n of the responses while no
\* other run was made
RECURSIVE Replay(_, _, _, _, _)
Replay(run, responses, n, mode, client) ==
    IF n = 0 THEN run
    ELSE StepReturn(Replay(run, responses, n - 1, mode, client), mode, client,
                    responses[n].http, responses[n].time)

\* the run a fresh orchestrator of the same construction makes alone from the
\* arguments and the executor responses of a history
SoloRun(h, mode, client) ==
    IF h.entry = "none" THEN IdleRun
    ELSE Replay(Call(IdleRun, h.entry, h.workflow_type, h.steps, h.data,
                     WorkflowTemplates, mode),
                h.responses, Len(h.responses), mode, client)

UnknownWorkflowRaised(run) ==
    /\ run.pc = "raised"
    /\ run.error.type = "ValueError"
    /\ run.error.text = "Unknown workflow type"

(* C13: the reserved name custom is never looked up in the catalog on the    *)
(* custom path: run_custom_workflow never fails with the unknown-workflow    *)
(* error, while run_workflow called directly with the name custom fails with *)
(* it like any other name outside the catalog.                               *)
C13_CustomNeverLookedUp ==
    \A r \in RunIds :
        /\ runs[r].entry = "run_custom_workflow" => ~UnknownWorkflowRaised(runs[r])
        /\ (runs[r].entry = "run_workflow" /\ runs[r].workflow_type = "custom") =>
                /\ UnknownWorkflowRaised(runs[r])
                /\ runs[r].error.workflow_type = "custom"

\* the output_ keys of a document
OutputKeys(result) == {key \in DOMAIN result : StartsWithOutput(key)}

\* a step output that already has analysis and recommendations
Canonical(step_data) ==
    step_data.t = "dict" /\ {"analysis", "recommendations"} \subseteq DOMAIN step_data.d

(* C14: output normalization is idempotent on canonical records: a step      *)
(* output that already has analysis and recommendations comes back as the    *)
(* identical record, and formatting a document twice gives what formatting   *)
(* it once gives.                                                            *)
C14_NormalizationIdempotent ==
    /\ ui.calls >= 1 =>
            \A key \in OutputKeys(ui.given) :
                Canonical(ui.given[key]) => ui.once[key] = ui.given[key]
    /\ ui.calls = 2 => ui.result = ui.once

\* a document formatted twice in which a canonical record with alternate
\* fields sits next to a plain string that the first pass had to wrap
C14_Witness ==
    /\ ui.calls = 2
    /\ \E key \in OutputKeys(ui.given) :
            /\ Canonical(ui.given[key])
            /\ "output" \in DOMAIN ui.given[key].d
            /\ ui.result[key] = ui.given[key]
    /\ \E key \in OutputKeys(ui.given) :
            /\ ui.given[key].t = "str"
            /\ ui.once[key] # ui.given[key]
            /\ ui.result[key] = ui.once[key]

\* the first alternate field a mapping holds, in the order output, result,
\* text, content
FirstAlternate(d) ==
    IF "output" \in DOMAIN d THEN d["output"]
    ELSE IF "result" \in DOMAIN d THEN d["result"]
    ELSE IF "text" \in DOMAIN d THEN d["text"]
    ELSE IF "content" \in DOMAIN d THEN d["content"]
    ELSE Placeholder

(* C19: a step output mapping with neither analysis nor response_text gets   *)
(* as analysis the first present of output, result, text, content, in that   *)
(* order, or the placeholder string when none is present; a mapping with     *)
(* analysis or response_text has no alternate field promoted.                *)
C19_AlternateFieldPromoted ==
    ui.calls >= 1 =>
        \A key \in OutputKeys(ui.given) :
            ui.given[key].t = "dict" =>
                IF "analysis" \notin DOMAIN ui.given[key].d
                   /\ "response_text" \notin DOMAIN ui.given[key].d
                THEN ui.once[key].d["analysis"] = FirstAlternate(ui.given[key].d)
                ELSE /\ "analysis" \in DOMAIN ui.once[key].d
                            <=> "analysis" \in DOMAIN ui.given[key].d
                     /\ "analysis" \in DOMAIN ui.given[key].d
                            => ui.once[key].d["analysis"] = ui.given[key].d["analysis"]

\* a mapping without analysis and response_text that holds result, text and
\* content but no output: result is promoted
C19_Witness ==
    /\ ui.calls = 1
    /\ \E key \in OutputKeys(ui.given) :
            /\ ui.given[key].t = "dict"
            /\ DOMAIN ui.given[key].d = {"result", "text", "content"}
            /\ ui.once[key].d["analysis"] = ui.given[key].d["result"]
            /\ ui.once[key].d["analysis"] # ui.given[key].d["content"]

MockGroups == 1..6

GroupMatches(g, prompt) ==
    CASE g = 1 -> "keyword" \in prompt
      [] g = 2 -> {"content", "brief"} \subseteq prompt
      [] g = 3 -> prompt \cap {"technical", "audit"} # {}
      [] g = 4 -> prompt \cap {"gap", "competitor"} # {}
      [] g = 5 -> "strategy" \in prompt
      [] g = 6 -> TRUE

GroupRecord(g) ==
    CASE g = 1 -> KeywordRecord
      [] g = 2 -> BriefRecord
      [] g = 3 -> TechnicalRecord
      [] g = 4 -> GapRecord
      [] g = 5 -> StrategyRecord
      [] g = 6 -> GenericRecord

\* the earliest group a prompt matches
EarliestGroup(prompt) ==
    CHOOSE g \in MockGroups :
        GroupMatches(g, prompt) /\ \A h \in MockGroups : GroupMatches(h, prompt) => g <= h

(* C17: the mock executor picks its record in a fixed priority order:        *)
(* keyword, then content with brief, then technical or audit, then gap or    *)
(* competitor, then strategy, and the generic record when none matches; a    *)
(* prompt matching several groups gets the record of the earliest one.       *)
C17_MockPriorityOrder ==
    \A n \in DOMAIN mock_calls :
        mock_calls[n].response
            = DictSet(GroupRecord(EarliestGroup(mock_calls[n].prompt)), "_api_info", MockApiInfo)

\* a prompt matching the technical, gap and strategy groups got the technical
\* record
C17_Witness ==
    \E n \in DOMAIN mock_calls :
        /\ {"audit", "competitor", "strategy", "content"} \subseteq mock_calls[n].prompt
        /\ "keyword" \notin mock_calls[n].prompt
        /\ "brief" \notin mock_calls[n].prompt
        /\ "issues" \in DOMAIN mock_calls[n].response

\* the block the line scan collected from the parsed text, and the span from
\* the first opening to the last closing brace
ParsedBlock == JsonBlock(parsed.content, 1, FALSE, <<>>)

ParsedSpan == JsonMatch(parsed.content)

\* the text whose strict parse is attempted: the block when one was found,
\* else the span; <<>> when neither was found
Attempted == IF ParsedBlock # <<>> THEN ParsedBlock ELSE ParsedSpan

(* C16: parse_response_content never raises, whatever the text: when no      *)
(* structured block is found or a parse attempt fails, it returns the        *)
(* passthrough record whose response_text is the raw text.                   *)
C16_ParseNeverRaises ==
    parsed.pc = "done" =>
        /\ parsed.result.ok
        /\ (Attempted = <<>> \/ ~JsonLoads(Attempted).ok) =>
                /\ parsed.result.is_dict
                /\ DOMAIN parsed.result.d = {"response_text"}
                /\ parsed.result.d["response_text"].lines = parsed.content

\* a text with a fenced block that is no JSON came back as passthrough
C16_Witness ==
    /\ parsed.pc = "done"
    /\ parsed.content = <<"FENCE_JSON", "PROSE", "FENCE">>
    /\ ~JsonLoads(ParsedBlock).ok
    /\ parsed.result = Passthrough(parsed.content)

(* C18: when a fenced or bare-brace block is found but its strict parse      *)
(* fails, the parser scans the full text for the first brace span and        *)
(* attempts a strict parse of that span before degrading to passthrough.     *)
C18_BlockFailureScansFullText ==
    (parsed.pc = "done" /\ ParsedBlock # <<>> /\ ~JsonLoads(ParsedBlock).ok) =>
        parsed.result = IF ParsedSpan # <<>> /\ JsonLoads(ParsedSpan).ok
                        THEN JsonLoads(ParsedSpan)
                        ELSE Passthrough(parsed.content)

\* the log entries a run has appended: the last ones of the log, one per
\* step stored
OwnEntries(run) ==
    SubSeq(ExecutionLog(run), Len(ExecutionLog(run)) - StepsStored(run) + 1,
           Len(ExecutionLog(run)))

(* C20: for each executed step the log entry's input_data_keys is the key    *)
(* set of the context the step received, the keys of input_<step>, and its   *)
(* output_data_keys the key set of output_<step>; one entry is appended per  *)
(* step, in execution order.                                                 *)
C20_LogEntryKeys ==
    \A r \in RunIds :
        (CatalogRun(runs[r]) /\ runs[r].pc # "raised") =>
            /\ Len(OwnEntries(runs[r])) = StepsStored(runs[r])
            /\ \A n \in DOMAIN OwnEntries(runs[r]) :
                    /\ OwnEntries(runs[r])[n].agent = runs[r].workflow_steps[n]
                    /\ OwnEntries(runs[r])[n].input_data_keys
                            = DOMAIN runs[r].result["input_" \o runs[r].workflow_steps[n]].d
                    /\ OwnEntries(runs[r])[n].output_data_keys
                            = DOMAIN runs[r].result["output_" \o runs[r].workflow_steps[n]].d

\* the outputs stored so far, by position of the step
StoredOutput(run, n) == run.result["output_" \o run.workflow_steps[n]].d

\* the canned records of the mock generator, with their metadata
MockRecords ==
    {DictSet(record, "_api_info", MockApiInfo) :
        record \in {KeywordRecord, BriefRecord, TechnicalRecord, GapRecord,
                    StrategyRecord, GenericRecord}}

\* the executor is the live client exactly when the mode is live and the key
\* is not empty; otherwise no live call is made and every output is canned
ExecutorAsConstructed ==
    /\ api_client = IF api_mode = "live" /\ api_key # "" THEN "client" ELSE "None"
    /\ \A r \in RunIds :
            /\ runs[r].live_steps # {} => (api_mode = "live" /\ api_key # "")
            /\ (api_mode = "mock" \/ api_key = "") =>
                    /\ runs[r].live_steps = {}
                    /\ \A n \in 1..StepsStored(runs[r]) :
                            StoredOutput(runs[r], n) \in MockRecords

(* C21: the executor variant is fixed at construction and never changes: the *)
(* live client is called for a step only if api_mode is live and the key is  *)
(* not empty; in mock mode, or live mode with an empty key, no live call is  *)
(* made and every step output comes from the mock generator.                 *)
C21_ExecutorFixedAtConstruction ==
    /\ []ExecutorAsConstructed
    /\ [][api_mode' = api_mode /\ api_key' = api_key /\ api_client' = api_client]_vars

\* a live-mode instance without a key returned a document of several steps,
\* all of them canned
C21_Witness ==
    \E r \in RunIds :
        /\ api_mode = "live" /\ api_key = ""
        /\ runs[r].pc = "returned"
        /\ Len(runs[r].workflow_steps) >= 2
        /\ runs[r].live_steps = {}
        /\ \A n \in DOMAIN runs[r].workflow_steps : StoredOutput(runs[r], n) \in MockRecords

\* the step's output was made by the mock generator: no live call was made
\* for it, or the live call failed
MadeByMock(run, step) == step \notin run.live_steps \/ step \in run.failed_steps

(* C22: every step output returned by call_claude_api carries _api_info with *)
(* model, version and mock_data, and mock_data is true exactly when the      *)
(* record came from the mock generator (mock mode or fallback) and false     *)
(* exactly when it was parsed from a live response.                          *)
C22_ApiInfoTellsOrigin ==
    \A r \in RunIds :
        \A n \in 1..StepsStored(runs[r]) :
            /\ "_api_info" \in DOMAIN StoredOutput(runs[r], n)
            /\ {"model", "version", "mock_data"}
                    \subseteq DOMAIN StoredOutput(runs[r], n)["_api_info"]
            /\ StoredOutput(runs[r], n)["_api_info"].mock_data
                    <=> MadeByMock(runs[r], runs[r].workflow_steps[n])
            /\ StoredOutput(runs[r], n) \in MockRecords
                    <=> MadeByMock(runs[r], runs[r].workflow_steps[n])

\* one document holding a parsed live output, flagged live, and the canned
\* output of a step whose live call failed, flagged mock
C22_Witness ==
    \E r \in RunIds :
        /\ runs[r].pc = "returned"
        /\ \E m, n \in DOMAIN runs[r].workflow_steps :
                /\ runs[r].workflow_steps[m] \in runs[r].live_steps \ runs[r].failed_steps
                /\ ~StoredOutput(runs[r], m)["_api_info"].mock_data
                /\ runs[r].workflow_steps[n] \in runs[r].failed_steps
                /\ StoredOutput(runs[r], n)["_api_info"].mock_data

\* the canned record of a step's own domain
OwnDomainRecord(step) ==
    CASE step = "keyword_research"     -> KeywordRecord
      [] step = "content_brief"        -> BriefRecord
      [] step = "technical_seo"        -> TechnicalRecord
      [] step = "content_gap_analysis" -> GapRecord
      [] step = "seo_strategy"         -> StrategyRecord

(* C27: in mock mode with empty initial data, for each catalog workflow,     *)
(* every step's stored output is the canned record of the step's own domain  *)
(* (keyword_groups for keyword_research, issues for technical_seo,           *)
(* content_opportunities for content_gap_analysis, priority_actions for      *)
(* seo_strategy), although the prompt also holds the earlier outputs.        *)
C27_MockRecordOfOwnDomain ==
    \A r \in RunIds :
        (api_mode = "mock" /\ CatalogRun(runs[r]) /\ runs[r].initial_data = EmptyDict) =>
            \A n \in 1..StepsStored(runs[r]) :
                runs[r].workflow_steps[n] # "content_writer" =>
                    StoredOutput(runs[r], n)
                        = DictSet(OwnDomainRecord(runs[r].workflow_steps[n]),
                                  "_api_info", MockApiInfo)

(* C28: for every initial-data mapping, also one with the keys               *)
(* workflow_type, workflow_description, api_mode or execution_summary, the   *)
(* document run_workflow returns holds the engine's own values under those   *)
(* four keys (requested name, catalog description, configured mode, the      *)
(* summary the run computed), and the run completes.                         *)
C28_ReservedKeysKeptByEngine ==
    \A r \in RunIds :
        CatalogRun(runs[r]) =>
            /\ runs[r].pc # "raised"
            /\ runs[r].pc = "returned" =>
                /\ runs[r].result["workflow_type"] = Atom(runs[r].workflow_type, {})
                /\ runs[r].result["workflow_description"]
                        = Atom(WorkflowTemplates[runs[r].workflow_type].description, {})
                /\ runs[r].result["api_mode"] = Atom(api_mode, {})
                /\ runs[r].result["execution_summary"].t = "summary"
                /\ Len(ExecutionLog(runs[r])) = Len(runs[r].workflow_steps)

(* C24: for every step identifier, known or not, the two prompt functions    *)
(* return a prompt without failing; an identifier outside the six known      *)
(* steps gets the base system prompt and the generic closing instruction.    *)
C24_PromptForAnyStep ==
    built.pc = "done" =>
        /\ built.system_prompt # <<>>
        /\ built.system_prompt[1] = "base_prompt"
        /\ built.prompt.header = built.step
        /\ IF built.step \in KnownSteps
           THEN /\ built.system_prompt = <<"base_prompt", built.step>>
                /\ built.prompt.closing = built.step
           ELSE /\ built.system_prompt = <<"base_prompt">>
                /\ built.prompt.closing = "generic"

\* prompts were built for an unknown identifier on a context that holds a
\* step output
C24_Witness ==
    /\ built.pc = "done"
    /\ built.step = "unknown_step"
    /\ "keyword_groups" \in built.prompt.keys
    /\ built.prompt.closing = "generic"

\* the class of error each failed exchange calls for
CauseOf(http) ==
    CASE http.kind = "timeout"  -> "timeout"
      [] http.kind = "status"   -> IF http.code = 401 THEN "auth" ELSE "http_status"
      [] http.kind = "not_json" -> "malformed_response"
      [] http.kind = "ok"       -> "malformed_response"

(* C23: call_api either returns a mapping with content, api_version and      *)
(* model, or fails with an error classified by cause (timeout, auth,         *)
(* http_<status>, malformed_response), so that the caller can tell the       *)
(* causes apart; it never returns a mapping without content.                 *)
C23_ApiErrorsClassified ==
    api_call.pc = "done" =>
        IF api_call.outcome.raised
        THEN api_call.outcome.error_type = CauseOf(api_call.http)
        ELSE {"content", "api_version", "model"} \subseteq DOMAIN api_call.outcome.response

\* the files the request served last has added to the results directory
Written == DOMAIN results_dir \ DOMAIN handler.files_before

(* C25: start_workflow writes a result file and answers with success and a   *)
(* new result_id only when the orchestrator call returned a document; when   *)
(* the orchestrator raises it answers with status 500 and the error and      *)
(* writes no file; an empty custom step list is answered with status 400     *)
(* without a call of the orchestrator.                                       *)
C25_FileOnlyForReturnedDocument ==
    handler.pc = "answered" =>
        LET run == runs[handler.served]
            request == handler.request
            response == handler.response
        IN  /\ (request.workflow_type = "custom" /\ request.steps = <<>>) =>
                    /\ response.status = 400
                    /\ ~handler.called /\ run = IdleRun
                    /\ Written = {}
            /\ run.pc = "raised" =>
                    /\ response.status = 500 /\ response.error = run.error
                    /\ Written = {}
            /\ response.success <=> run.pc = "returned"
            /\ response.success =>
                    /\ Written = {response.result_id}
                    /\ \A key \in DOMAIN run.result \ {"api_mode", "api_mode_reason"} :
                            results_dir[response.result_id][key] = run.result[key]
            /\ \A f \in DOMAIN handler.files_before :
                    results_dir[f] = handler.files_before[f]

\* a request is answered with success and its file after an earlier request
\* was answered with the orchestrator's exception and no file
C25_Witness ==
    /\ handler.pc = "answered" /\ handler.served = 2
    /\ runs[1].pc = "raised" /\ runs[2].pc = "returned"
    /\ Len(runs[2].workflow_steps) > 0
    /\ handler.response.success
    /\ DOMAIN results_dir = {handler.response.result_id}

\* the summary of the document the minimal orchestrator returned
MinimalSummary == SummaryOf(minimal.result, minimal.caller_summary)

\* the document carries a summary with its four fields
MinimalSummaryWhole ==
    /\ SummaryIsMapping(minimal.result)
    /\ {"total_steps_executed", "total_execution_time_seconds",
        "average_step_time_seconds", "execution_log"} \subseteq DOMAIN MinimalSummary

(* C26: every document _create_mock_result builds, through run_workflow or   *)
(* run_custom_workflow and for any step list including the empty one, has    *)
(* average_step_time_seconds equal to total_execution_time_seconds divided   *)
(* by total_steps_executed when that is positive, and equal to 0 otherwise.  *)
C26_MinimalAverageIsTotalOverSteps ==
    minimal.pc = "returned" =>
        /\ MinimalSummaryWhole
        /\ LET n == MinimalSummary.total_steps_executed
               total == MinimalSummary.total_execution_time_seconds
               average == MinimalSummary.average_step_time_seconds
           IN  IF n > 0
               THEN RatioEq(average, Ratio(total.num, total.den * n))
               ELSE average.num = 0

(* C30: for every step list given to the minimal orchestrator's              *)
(* run_custom_workflow, lists repeating a step identifier included, the      *)
(* number of output_<step> entries of the document equals                    *)
(* total_steps_executed and the length of execution_log: no executed step's  *)
(* output is overwritten by another's.                                       *)
C30_MinimalOneOutputPerStep ==
    (minimal.pc = "returned" /\ minimal.entry = "run_custom_workflow") =>
        /\ MinimalSummaryWhole
        /\ Cardinality(OutputKeys(minimal.result)) = MinimalSummary.total_steps_executed
        /\ Cardinality(OutputKeys(minimal.result)) = Len(MinimalSummary.execution_log)

\* the statuses of a load that failed
FailedStatuses ==
    {"file_not_found", "empty_file", "invalid_json", "invalid_format", "missing_key",
     "permission_denied", "read_error"}

(* C29: after any sequence of load_keys calls, the keys file changing        *)
(* between them, get_api_mode_info answers live only if the status of the    *)
(* most recent load is success and get_key("anthropic", "api_key") is        *)
(* non-empty; whenever the most recent load failed the mode is mock and      *)
(* get_key returns the empty string.                                         *)
C29_ModeFollowsLastLoad ==
    LET key == GetKey(key_manager, "anthropic", "api_key")
    IN  /\ GetApiModeInfo(key_manager) = "live" =>
                key_manager.status = "success" /\ Truthy(key)
        /\ key_manager.status \in FailedStatuses =>
                GetApiModeInfo(key_manager) = "mock" /\ key = JStr("")

====
